---- MODULE Spec2Model ----
(***************************************************************************)
(* Model of todo.py: a command-line task manager that keeps its tasks in   *)
(* one JSON file.  Every invocation loads the file, changes the in-memory  *)
(* list and saves it back.                                                 *)
(*                                                                         *)
(* Spec     : invocations run one after another (each handler is atomic).  *)
(* SpecConc : two invocations run at the same time; every system call on   *)
(*            the backing file is one step.                                *)
(***************************************************************************)
EXTENDS Integers, Sequences, FiniteSets

VARIABLES
    file,       \* the backing file tasks.json: [exists, data]
    last,       \* what the last invocation reported (exit code, output)
    everAdded,  \* history: ids handed out by add_task so far
    clock,      \* what datetime.now() will return next
    pc,         \* SpecConc: position of every running invocation
    cmd,        \* SpecConc: command line of every invocation
    loc,        \* SpecConc: the invocation's in-memory task list
    wbuf,       \* SpecConc: text the invocation has buffered for the file
    wret,       \* SpecConc: where the invocation goes on after the write
    rbuf,       \* SpecConc: bytes the invocation's readall has got so far
    rcap,       \* SpecConc: size of the buffer readall reads into
    alone       \* SpecConc, history: no write by the other invocation was
                \* open or opened since this invocation began to read

vars == <<file, last, everAdded, clock, pc, cmd, loc, wbuf, wret, rbuf, rcap,
          alone>>

\* ---------------------------------------------------------------- bounds
MaxTime  == 3      \* the clock stops at MaxTime; add is not tried then

Texts == {<<>>, <<"a">>}
Times == 0..MaxTime
Ids   == 0..MaxTime
Procs == {1, 2}

\* ------------------------------------------------------- the JSON document
\* The file is a sequence of bytes; a byte is a string of one character.
\* Texts and timestamps are sequences of characters too.  The alphabet has
\* no character that JSON escapes and no character outside ASCII.
Digits == <<"0", "1", "2", "3", "4", "5", "6", "7", "8", "9">>

IsDigit(c) == \E d \in 1..10 : Digits[d] = c

DigitVal(c) == (CHOOSE d \in 1..10 : Digits[d] = c) - 1

\* str(n) for n >= 0
RECURSIVE IntToChars(_)
IntToChars(n) ==
    IF n < 10 THEN <<Digits[n + 1]>>
    ELSE IntToChars(n \div 10) \o <<Digits[(n % 10) + 1]>>

RECURSIVE CharsToInt(_)
CharsToInt(cs) ==
    IF cs = <<>> THEN 0
    ELSE 10 * CharsToInt(SubSeq(cs, 1, Len(cs) - 1)) + DigitVal(cs[Len(cs)])

\* n written with exactly width digits
RECURSIVE Pad(_, _)
Pad(n, width) ==
    IF width = 0 THEN <<>>
    ELSE Pad(n \div 10, width - 1) \o <<Digits[(n % 10) + 1]>>

\* datetime.isoformat() of the instant n microseconds after the start of the
\* model's time: the fraction is left out when the microseconds are 0.
IsoSeconds == <<"2", "0", "2", "6", "-", "0", "1", "-", "0", "1", "T", "0", "0", ":", "0", "0", ":", "0", "0">>

IsoFormat(n) ==
    IF n = 0 THEN IsoSeconds ELSE IsoSeconds \o <<".">> \o Pad(n, 6)

EmptyDoc == <<"[", "]">>

ObjOpen      == <<" ", " ", "{", "\n">>
KeyId        == <<" ", " ", " ", " ", "\"", "i", "d", "\"", ":", " ">>
KeyText      == <<" ", " ", " ", " ", "\"", "t", "e", "x", "t", "\"", ":", " ">>
KeyCompleted == <<" ", " ", " ", " ", "\"", "c", "o", "m", "p", "l", "e", "t", "e", "d", "\"", ":", " ">>
KeyCreatedAt == <<" ", " ", " ", " ", "\"", "c", "r", "e", "a", "t", "e", "d", "_", "a", "t", "\"", ":", " ">>
ObjClose     == <<" ", " ", "}">>
CommaNL      == <<",", "\n">>
Quote        == <<"\"">>
NL           == <<"\n">>
LitTrue      == <<"t", "r", "u", "e">>
LitFalse     == <<"f", "a", "l", "s", "e">>

DumpTask(task, isLast) ==
    ObjOpen
    \o KeyId \o IntToChars(task.id) \o CommaNL
    \o KeyText \o Quote \o task.text \o Quote \o CommaNL
    \o KeyCompleted \o (IF task.completed THEN LitTrue ELSE LitFalse) \o CommaNL
    \o KeyCreatedAt \o Quote \o task.created_at \o Quote \o NL
    \o ObjClose \o (IF isLast THEN NL ELSE CommaNL)

RECURSIVE DumpTasks(_, _)
DumpTasks(tasks, i) ==
    IF i > Len(tasks) THEN <<>>
    ELSE DumpTask(tasks[i], i = Len(tasks)) \o DumpTasks(tasks, i + 1)

\* json.dump(tasks, f, indent=2, ensure_ascii=False): "[]" for the empty
\* list, else one line per bracket and per field, keys in insertion order,
\* no newline at the end.  json.dump([], f) gives the same "[]".
json_dump(tasks) ==
    IF tasks = <<>> THEN EmptyDoc
    ELSE <<"[", "\n">> \o DumpTasks(tasks, 1) \o <<"]">>

JsonError  == [ok |-> FALSE, isList |-> FALSE, val |-> <<>>]
JsonScalar == [ok |-> TRUE,  isList |-> FALSE, val |-> <<>>]
JsonList(v) == [ok |-> TRUE, isList |-> TRUE, val |-> v]

\* the text has pat at position i
Lit(data, i, pat) ==
    /\ i + Len(pat) - 1 <= Len(data)
    /\ SubSeq(data, i, i + Len(pat) - 1) = pat

\* first position from i on that holds no digit
RECURSIVE ScanDigits(_, _)
ScanDigits(data, i) ==
    IF i <= Len(data) /\ IsDigit(data[i]) THEN ScanDigits(data, i + 1) ELSE i

\* position of the quote that closes a string whose first character is at
\* i; 0 when the text or the line ends before
RECURSIVE ScanString(_, _)
ScanString(data, i) ==
    IF i > Len(data) \/ data[i] = "\n" THEN 0
    ELSE IF data[i] = "\"" THEN i
    ELSE ScanString(data, i + 1)

\* only blanks and newlines from i on
RECURSIVE OnlySpace(_, _)
OnlySpace(data, i) ==
    IF i > Len(data) THEN TRUE
    ELSE data[i] \in {" ", "\n"} /\ OnlySpace(data, i + 1)

TaskError == [ok |-> FALSE, next |-> 0, task |-> <<>>]

\* one object of the array, as json_dump writes it, starting at position i
ParseTask(data, i) ==
    LET idAt   == i + Len(ObjOpen) + Len(KeyId)
        idEnd  == ScanDigits(data, idAt)
        idOk   == /\ Lit(data, i, ObjOpen \o KeyId)
                  /\ idEnd > idAt
                  /\ (idEnd > idAt + 1 => data[idAt] # "0")
        txAt   == idEnd + Len(CommaNL) + Len(KeyText) + 1
        txEnd  == ScanString(data, txAt)
        txOk   == /\ Lit(data, idEnd, CommaNL \o KeyText \o Quote)
                  /\ txEnd > 0
        coAt   == txEnd + 1 + Len(CommaNL) + Len(KeyCompleted)
        coTrue == Lit(data, coAt, LitTrue)
        coEnd  == coAt + (IF coTrue THEN Len(LitTrue) ELSE Len(LitFalse))
        coOk   == /\ Lit(data, txEnd, Quote \o CommaNL \o KeyCompleted)
                  /\ (coTrue \/ Lit(data, coAt, LitFalse))
        crAt   == coEnd + Len(CommaNL) + Len(KeyCreatedAt) + 1
        crEnd  == ScanString(data, crAt)
        crOk   == /\ Lit(data, coEnd, CommaNL \o KeyCreatedAt \o Quote)
                  /\ crEnd > 0
                  /\ Lit(data, crEnd, Quote \o NL \o ObjClose)
    IN  IF idOk /\ txOk /\ coOk /\ crOk
        THEN [ok   |-> TRUE,
              next |-> crEnd + 1 + Len(NL) + Len(ObjClose),
              task |-> [id |-> CharsToInt(SubSeq(data, idAt, idEnd - 1)),
                        text |-> SubSeq(data, txAt, txEnd - 1),
                        completed |-> coTrue,
                        created_at |-> SubSeq(data, crAt, crEnd - 1)]]
        ELSE TaskError

RECURSIVE ParseTasks(_, _, _)
ParseTasks(data, i, acc) ==
    LET r == ParseTask(data, i)
    IN  IF ~r.ok THEN JsonError
        ELSE IF Lit(data, r.next, CommaNL)
             THEN ParseTasks(data, r.next + 2, Append(acc, r.task))
             ELSE IF Lit(data, r.next, <<"\n", "]">>)
                     /\ OnlySpace(data, r.next + 2)
                  THEN JsonList(Append(acc, r.task))
                  ELSE JsonError

\* json.load(f) on the text read from the file: the whole text must be one
\* JSON value, blanks may follow it ("Extra data" otherwise).  The arrays
\* recognised are the ones json_dump writes; the other values recognised
\* are {}, a string, a number, true, false and null.
json_load(data) ==
    IF data = <<>> THEN JsonError
    ELSE IF Lit(data, 1, EmptyDoc) THEN
            IF OnlySpace(data, 3) THEN JsonList(<<>>) ELSE JsonError
    ELSE IF Lit(data, 1, <<"[", "\n">>) THEN ParseTasks(data, 3, <<>>)
    ELSE IF Lit(data, 1, <<"{", "}">>) THEN
            IF OnlySpace(data, 3) THEN JsonScalar ELSE JsonError
    ELSE IF data[1] = "\"" THEN
            IF ScanString(data, 2) > 0 /\ OnlySpace(data, ScanString(data, 2) + 1)
            THEN JsonScalar ELSE JsonError
    ELSE IF IsDigit(data[1]) THEN
            IF /\ (ScanDigits(data, 1) > 2 => data[1] # "0")
               /\ OnlySpace(data, ScanDigits(data, 1))
            THEN JsonScalar ELSE JsonError
    ELSE IF \E w \in {LitTrue, LitFalse, <<"n", "u", "l", "l">>} :
               Lit(data, 1, w) /\ OnlySpace(data, Len(w) + 1)
         THEN JsonScalar
    ELSE JsonError

\* ------------------------------------------------------------ the file
Missing == [exists |-> FALSE, data |-> <<>>]
OnDisk(data) == [exists |-> TRUE, data |-> data]

\* the try block of load_tasks: the list, or the reason it is rejected
IsValid(data) == LET j == json_load(data) IN j.ok /\ j.isList

\* variant: only a syntax error is treated as corruption
load_tasks_syntax_only(f) ==
    IF ~f.exists
    THEN [tasks |-> <<>>, file |-> OnDisk(json_dump(<<>>)), recovered |-> FALSE]
    ELSE LET j == json_load(f.data)
         IN  IF j.ok
             THEN [tasks |-> j.val, file |-> f, recovered |-> FALSE]
             ELSE [tasks |-> <<>>, file |-> OnDisk(json_dump(<<>>)),
                   recovered |-> TRUE]

load_tasks(f) ==
    IF ~f.exists
    THEN [tasks |-> <<>>, file |-> OnDisk(json_dump(<<>>)), recovered |-> FALSE]
    ELSE LET j == json_load(f.data)
         IN  IF j.ok /\ j.isList
             THEN [tasks |-> j.val, file |-> f, recovered |-> FALSE]
             ELSE [tasks |-> <<>>, file |-> OnDisk(json_dump(<<>>)),
                   recovered |-> TRUE]

save_tasks(tasks) == OnDisk(json_dump(tasks))

\* ------------------------------------------------------ the task list
RECURSIVE MaxOf(_)
MaxOf(S) ==
    LET x == CHOOSE y \in S : TRUE
    IN  IF S = {x} THEN x
        ELSE LET m == MaxOf(S \ {x}) IN IF x > m THEN x ELSE m

IdsOf(tasks) == {tasks[k].id : k \in 1..Len(tasks)}

\* variant: one more than the first task's id instead of the largest id
get_next_id_first(tasks) ==
    IF tasks = <<>> THEN 1 ELSE tasks[1].id + 1

\* variant: one more than the number of tasks
get_next_id_count(tasks) == Len(tasks) + 1

get_next_id(tasks) ==
    IF tasks = <<>> THEN 1 ELSE MaxOf(IdsOf(tasks)) + 1

NewTask(task_text, tasks, now) ==
    [id |-> get_next_id(tasks), text |-> task_text,
     completed |-> FALSE, created_at |-> IsoFormat(now)]

\* variant: the new task is put in front
add_task_front(task_text, tasks, now) ==
    <<NewTask(task_text, tasks, now)>> \o tasks

add_task(task_text, tasks, now) == Append(tasks, NewTask(task_text, tasks, now))

\* index of the first task with this id, 0 for None
find_task_by_id(task_id, tasks) ==
    IF \E k \in 1..Len(tasks) : tasks[k].id = task_id
    THEN CHOOSE k \in 1..Len(tasks) :
            /\ tasks[k].id = task_id
            /\ \A j \in 1..(k - 1) : tasks[j].id # task_id
    ELSE 0

\* variant: the flag is flipped instead of set
complete_task_toggle(task_id, tasks) ==
    LET k == find_task_by_id(task_id, tasks)
    IN  IF k = 0 THEN [found |-> FALSE, tasks |-> tasks]
        ELSE [found |-> TRUE,
              tasks |-> [tasks EXCEPT ![k].completed = ~tasks[k].completed]]

\* variant: a task that is already completed counts as not found
complete_task_once(task_id, tasks) ==
    LET k == find_task_by_id(task_id, tasks)
    IN  IF k = 0 \/ tasks[k].completed THEN [found |-> FALSE, tasks |-> tasks]
        ELSE [found |-> TRUE,
              tasks |-> [tasks EXCEPT ![k].completed = TRUE]]

complete_task(task_id, tasks) ==
    LET k == find_task_by_id(task_id, tasks)
    IN  IF k = 0 THEN [found |-> FALSE, tasks |-> tasks]
        ELSE [found |-> TRUE,
              tasks |-> [tasks EXCEPT ![k].completed = TRUE]]

RemoveAt(tasks, k) ==
    SubSeq(tasks, 1, k - 1) \o SubSeq(tasks, k + 1, Len(tasks))

\* variant: the last task is removed instead of the one found
delete_task_last(task_id, tasks) ==
    LET k == find_task_by_id(task_id, tasks)
    IN  IF k = 0 THEN [found |-> FALSE, tasks |-> tasks]
        ELSE [found |-> TRUE, tasks |-> RemoveAt(tasks, Len(tasks))]

delete_task(task_id, tasks) ==
    LET k == find_task_by_id(task_id, tasks)
    IN  IF k = 0 THEN [found |-> FALSE, tasks |-> tasks]
        ELSE [found |-> TRUE, tasks |-> RemoveAt(tasks, k)]

\* datetime.fromisoformat accepts what isoformat writes: the seconds, or
\* the seconds, a point and six digits (timestamps are in the model's second)
IsIso(cs) ==
    \/ cs = IsoSeconds
    \/ /\ Len(cs) = 26
       /\ SubSeq(cs, 1, 20) = IsoSeconds \o <<".">>
       /\ \A k \in 21..26 : IsDigit(cs[k])

\* the parts of "[id] [status] text (timestamp)"; strftime("%Y-%m-%d %H:%M")
\* gives the date, a blank, hours and minutes
format_task(task) ==
    [id |-> task.id, status |-> IF task.completed THEN "done" ELSE " ",
     text |-> task.text,
     timestamp |-> IF IsIso(task.created_at)
                   THEN SubSeq(task.created_at, 1, 10) \o <<" ">>
                          \o SubSeq(task.created_at, 12, 16)
                   ELSE <<"U", "n", "k", "n", "o", "w", "n">>]

RECURSIVE FormatFrom(_, _)
FormatFrom(tasks, k) ==
    IF k > Len(tasks) THEN <<>>
    ELSE <<format_task(tasks[k])>> \o FormatFrom(tasks, k + 1)

\* the lines list_tasks prints; "No tasks found." is the empty listing
list_tasks(tasks) == FormatFrom(tasks, 1)

\* ------------------------------------------------- the command handlers
\* A handler maps the file before the invocation to the file after it and
\* to the report of the invocation: exit code, message, whether save_tasks
\* ran, whether load_tasks reinitialised a corrupted file.
Report(c, id, text, exit, msg, saved, recovered, lines) ==
    [cmd |-> c, id |-> id, text |-> text, exit |-> exit, msg |-> msg,
     saved |-> saved, recovered |-> recovered, lines |-> lines]

NoReport == Report("none", 0, <<>>, 0, "", FALSE, FALSE, <<>>)

handle_add(text, now, f) ==
    LET l     == load_tasks(f)
        tasks == add_task(text, l.tasks, now)
    IN  [file |-> save_tasks(tasks),
         last |-> Report("add", tasks[Len(tasks)].id, text, 0, "Added task",
                         TRUE, l.recovered, <<>>)]

handle_list(f) ==
    LET l == load_tasks(f)
    IN  [file |-> l.file,
         last |-> Report("list", 0, <<>>, 0,
                         IF l.tasks = <<>> THEN "No tasks found." ELSE "",
                         FALSE, l.recovered, list_tasks(l.tasks))]

handle_complete(id, f) ==
    LET l == load_tasks(f)
        r == complete_task(id, l.tasks)
    IN  IF r.found
        THEN [file |-> save_tasks(r.tasks),
              last |-> Report("complete", id, <<>>, 0, "Marked task as complete",
                              TRUE, l.recovered, <<>>)]
        ELSE [file |-> l.file,
              last |-> Report("complete", id, <<>>, 1, "Error: Task not found",
                              FALSE, l.recovered, <<>>)]

\* variant: the list is saved whether or not the task was found
handle_delete_always_saves(id, f) ==
    LET l == load_tasks(f)
        r == delete_task(id, l.tasks)
    IN  [file |-> save_tasks(r.tasks),
         last |-> Report("delete", id, <<>>, IF r.found THEN 0 ELSE 1,
                         IF r.found THEN "Deleted task"
                         ELSE "Error: Task not found",
                         TRUE, l.recovered, <<>>)]

handle_delete(id, f) ==
    LET l == load_tasks(f)
        r == delete_task(id, l.tasks)
    IN  IF r.found
        THEN [file |-> save_tasks(r.tasks),
              last |-> Report("delete", id, <<>>, 0, "Deleted task",
                              TRUE, l.recovered, <<>>)]
        ELSE [file |-> l.file,
              last |-> Report("delete", id, <<>>, 1, "Error: Task not found",
                              FALSE, l.recovered, <<>>)]

\* ------------------------------------------ Spec: one invocation at a time
concVars == <<pc, cmd, loc, wbuf, wret, rbuf, rcap, alone>>

NoCmd == [name |-> "none", id |-> 0, text |-> <<>>]

ConcIdle ==
    /\ pc   = [p \in Procs |-> "idle"]
    /\ cmd  = [p \in Procs |-> NoCmd]
    /\ loc  = [p \in Procs |-> <<>>]
    /\ wbuf = [p \in Procs |-> <<>>]
    /\ wret = [p \in Procs |-> "idle"]
    /\ rbuf = [p \in Procs |-> <<>>]
    /\ rcap = [p \in Procs |-> 0]
    /\ alone = [p \in Procs |-> FALSE]

\* files an invocation can find: none, an empty array, a zero-length file,
\* text that is not JSON, a JSON string, a JSON object, a cut-off array
CorruptData ==
    { <<>>, <<"{", "a">>, <<"\"", "a", "\"">>, <<"{", "}">>,
      <<"[", "\n">> \o ObjOpen }

InitFiles == {Missing, OnDisk(EmptyDoc)} \cup {OnDisk(d) : d \in CorruptData}

Init ==
    /\ file \in InitFiles
    /\ last = NoReport
    /\ everAdded = {}
    /\ clock = 0
    /\ ConcIdle

\* the collection an invocation loads from file f
StoredIn(f) == load_tasks(f).tasks

\* the collection the next invocation will load
Stored == StoredIn(file)

Main(r) ==
    /\ file' = r.file
    /\ last' = r.last
    /\ UNCHANGED concVars

\* the clock has moved on when the next invocation reads it
Add(text) ==
    /\ clock < MaxTime
    /\ Main(handle_add(text, clock, file))
    /\ everAdded' = everAdded \cup {handle_add(text, clock, file).last.id}
    /\ clock' = clock + 1

List ==
    /\ Main(handle_list(file))
    /\ UNCHANGED <<everAdded, clock>>

Complete(id) ==
    /\ Main(handle_complete(id, file))
    /\ UNCHANGED <<everAdded, clock>>

Delete(id) ==
    /\ Main(handle_delete(id, file))
    /\ UNCHANGED <<everAdded, clock>>

AddAny      == \E text \in Texts : Add(text)
CompleteAny == \E id \in Ids : Complete(id)
DeleteAny   == \E id \in Ids : Delete(id)

Next == AddAny \/ List \/ CompleteAny \/ DeleteAny

Spec == Init /\ [][Next]_vars

TypeOK ==
    /\ file.exists \in BOOLEAN
    /\ last.exit \in {0, 1}
    /\ everAdded \subseteq 1..MaxTime
    /\ clock \in Times

\* ------------------------------------------------------------ properties
HasId(id) == id \in IdsOf(Stored)

IsCorrupt(f) == f.exists /\ ~IsValid(f.data)

\* the step is the invocation of command c with this id: what Complete(id)
\* and Delete(id) report
Ran(c, id) == last'.cmd = c /\ last'.id = id

\* C1: the id given to a newly added task differs from the id of every task
\* that was ever added before, deleted tasks included.
C1_NoIdReuse == [][AddAny => last'.id \notin everAdded]_vars

\* C2: in a run of add commands from the empty collection the first id is 1
\* and every later add gets an id strictly greater than the add before it.
C2_AddIdsIncrease ==
    [][AddAny => /\ last.cmd = "none" => last'.id = 1
                 /\ last.cmd = "add" => last'.id > last.id]_vars

C2_Witness ==
    /\ last.cmd = "add"
    /\ last.id = 3
    /\ IdsOf(Stored) = {1, 2, 3}

\* C3: in every reachable state the stored tasks have pairwise distinct ids
\* and every id is a positive integer.
C3_UniquePositiveIds ==
    LET S == Stored
    IN  /\ \A j, k \in 1..Len(S) : j # k => S[j].id # S[k].id
        /\ \A k \in 1..Len(S) : S[k].id \in Nat \ {0}

C3_Witness ==
    /\ Len(Stored) = 2
    /\ 1 \notin IdsOf(Stored)
    /\ last.cmd = "add"

\* C4 as stated: complete or delete of an id no task has fails, does not
\* save, exits with 1 and leaves the backing file exactly as it was.
C4_FileUntouched ==
    [][\A id \in Ids :
         /\ Ran("complete", id) \/ Ran("delete", id)
         /\ ~HasId(id)
         /\ Complete(id) \/ Delete(id)
         => /\ last'.exit = 1
            /\ ~last'.saved
            /\ file' = file]_vars

\* C4 amended: complete or delete of an id no task has fails, does not save
\* and exits with 1; the file is exactly as it was when it held a JSON
\* array, and holds the empty array when it was missing or corrupted.
C4_FileUntouchedWhenValid ==
    [][\A id \in Ids :
         /\ Ran("complete", id) \/ Ran("delete", id)
         /\ ~HasId(id)
         /\ Complete(id) \/ Delete(id)
         => /\ last'.exit = 1
            /\ ~last'.saved
            /\ StoredIn(file') = Stored
            /\ IF file.exists /\ IsValid(file.data)
               THEN file' = file
               ELSE file' = OnDisk(EmptyDoc)]_vars

C4_Witness ==
    /\ last.cmd \in {"complete", "delete"}
    /\ last.exit = 1
    /\ Len(Stored) = 2
    /\ ~HasId(last.id)

\* C6: a command that finds a file that is not JSON or not a JSON array
\* reports no failure of its own, leaves an array in the file and behaves
\* as the same command does on the empty collection.
C6_CorruptionRecovery ==
    [][IsCorrupt(file) /\ Next
         => /\ last'.recovered
            /\ file'.exists /\ IsValid(file'.data)
            /\ List => /\ file'.data = EmptyDoc
                       /\ last'.lines = <<>>
                       /\ last'.msg = "No tasks found."
                       /\ last'.exit = 0
            /\ (CompleteAny \/ DeleteAny) => /\ file'.data = EmptyDoc
                                              /\ last'.exit = 1
            /\ AddAny => /\ Len(StoredIn(file')) = 1
                         /\ StoredIn(file')[1].id = 1
                         /\ last'.exit = 0]_vars

C6_Witness ==
    /\ last.recovered
    /\ last.cmd = "list"
    /\ file = OnDisk(EmptyDoc)

\* C7: complete of an existing id succeeds, and running it again succeeds
\* too and leaves the saved file as the first run left it.
C7_CompleteIdempotent ==
    [][\A id \in Ids :
         Ran("complete", id) /\ HasId(id) /\ Complete(id)
            => LET again == handle_complete(id, file')
               IN  /\ last'.exit = 0
                   /\ again.last.exit = 0
                   /\ again.file = file']_vars

C7_Witness ==
    /\ last.cmd = "complete"
    /\ last.exit = 0
    /\ Len(Stored) = 2
    /\ \E k \in 1..2 : Stored[k].id = last.id /\ Stored[k].completed
    /\ \E k \in 1..2 : ~Stored[k].completed

\* C8: a task that stays in the collection keeps its id and its text, and
\* its completed flag never goes from true to false.
SameTask(a, b) ==
    /\ a.id = b.id
    /\ a.text = b.text
    /\ a.completed => b.completed

KeepsTasks(old, new) ==
    \/ /\ Len(new) >= Len(old)
       /\ \A k \in 1..Len(old) : SameTask(old[k], new[k])
    \/ \E r \in 1..Len(old) :
          /\ Len(new) = Len(old) - 1
          /\ \A k \in 1..Len(new) :
                SameTask(old[IF k < r THEN k ELSE k + 1], new[k])

C8_TasksImmutable ==
    [][file' # file => LET old == Stored
                           new == StoredIn(file')
                       IN  KeepsTasks(old, new)]_vars

C8_Witness ==
    /\ Len(Stored) = 2
    /\ Stored[1].completed
    /\ Stored[1].id = 2
    /\ last.cmd = "list"

\* C9: delete of an existing id succeeds, removes that task only, keeps the
\* other tasks unchanged and in order, and saves the result.
C9_DeleteRemovesOne ==
    [][\A id \in Ids :
         Ran("delete", id) /\ HasId(id) /\ Delete(id)
            => LET old == Stored
                   new == StoredIn(file')
               IN  /\ last'.exit = 0
                   /\ last'.saved
                   /\ Len(new) = Len(old) - 1
                   /\ new = SelectSeq(old, LAMBDA t : t.id # id)
                   /\ file' = OnDisk(json_dump(new))]_vars

C9_Witness ==
    /\ last.cmd = "delete"
    /\ last.exit = 0
    /\ last.id = 2
    /\ Len(Stored) = 2
    /\ IdsOf(Stored) = {1, 3}

\* C10: add appends one task with completed = false and id = next id of the
\* collection before the call, whatever the text, keeps the earlier tasks
\* unchanged and in order, and saves the collection.
C10_AddAppends ==
    [][\A text \in Texts :
         last'.cmd = "add" /\ last'.text = text /\ Add(text)
            => LET old == Stored
                   new == StoredIn(file')
               IN  /\ Len(new) = Len(old) + 1
                   /\ SubSeq(new, 1, Len(old)) = old
                   /\ new[Len(new)] =
                        [id |-> get_next_id(old), text |-> text,
                         completed |-> FALSE,
                         created_at |-> IsoFormat(clock)]
                   /\ last'.saved
                   /\ file' = OnDisk(json_dump(new))]_vars

C10_Witness ==
    /\ last.cmd = "add"
    /\ last.text = <<>>
    /\ Len(Stored) = 3
    /\ Stored[3].text = <<>>
    /\ Stored[1].completed

\* ------------------------------------ SpecConc: two invocations at once
\* Every system call on the backing file is a step of its own: the
\* existence test, the size query and each read() of readall, the open for
\* writing (which truncates) and the write() of the buffered text.  An open
\* for reading changes nothing and is part of the step that follows it; the
\* work on the in-memory list is one step.
Min(a, b) == IF a < b THEN a ELSE b
Max(a, b) == IF a > b THEN a ELSE b

\* io.DEFAULT_BUFFER_SIZE; also SMALLCHUNK of FileIO.readall
BufferSize == 8192

\* FileIO.readall grows a full buffer
new_buffersize(currentsize) ==
    currentsize + Max(IF currentsize > 65536 THEN currentsize \div 8
                      ELSE 256 + currentsize,
                      BufferSize)

\* variant: the file is opened without being truncated
open_keep(f) == OnDisk(f.data)

\* open(file_path, 'w'): the file exists afterwards and is empty
open_w(f) == OnDisk(<<>>)

\* write(bytes) through a handle at offset 0 that was not opened for append:
\* the bytes replace what is there, bytes behind them stay
WriteAtStart(data, bytes) ==
    bytes \o SubSeq(data, Len(bytes) + 1, Len(data))

Commands ==
    {[name |-> "add", id |-> 0, text |-> t] : t \in Texts}
    \cup {[name |-> "list", id |-> 0, text |-> <<>>]}
    \cup {[name |-> c, id |-> i, text |-> <<>>] :
            c \in {"complete", "delete"}, i \in Ids}

Others(p) == Procs \ {p}

\* main: parse the command line and call the handler
Start(p, c) ==
    /\ pc[p] = "idle"
    /\ cmd' = [cmd EXCEPT ![p] = c]
    /\ pc' = [pc EXCEPT ![p] = "load"]
    /\ UNCHANGED <<file, last, everAdded, clock, loc, wbuf, wret, rbuf, rcap,
                   alone>>

\* load_tasks: os.path.exists(file_path)
LoadCheck(p) ==
    /\ pc[p] = "load"
    /\ pc' = [pc EXCEPT ![p] = IF file.exists THEN "size" ELSE "init_open"]
    /\ UNCHANGED <<file, last, everAdded, clock, cmd, loc, wbuf, wret, rbuf,
                   rcap, alone>>

\* load_tasks: open for reading; json.load calls f.read(), readall asks for
\* the size of the file and makes a buffer one byte larger
LoadSize(p) ==
    /\ pc[p] = "size"
    /\ rcap' = [rcap EXCEPT ![p] = IF Len(file.data) > 0
                                   THEN Len(file.data) + 1 ELSE BufferSize]
    /\ rbuf' = [rbuf EXCEPT ![p] = <<>>]
    /\ alone' = [alone EXCEPT ![p] = \A q \in Others(p) : pc[q] # "write"]
    /\ pc' = [pc EXCEPT ![p] = "read"]
    /\ UNCHANGED <<file, last, everAdded, clock, cmd, loc, wbuf, wret>>

\* load_tasks: one read() of readall; a read that returns nothing ends it,
\* json.load parses what was read and the isinstance test follows
LoadRead(p) ==
    /\ pc[p] = "read"
    /\ LET have == Len(rbuf[p])
           cap  == IF have >= rcap[p] THEN new_buffersize(have) ELSE rcap[p]
           n    == Min(cap - have, Max(0, Len(file.data) - have))
           j    == json_load(rbuf[p])
       IN  IF n > 0
           THEN /\ rbuf' = [rbuf EXCEPT ![p] =
                               rbuf[p] \o SubSeq(file.data, have + 1, have + n)]
                /\ rcap' = [rcap EXCEPT ![p] = cap]
                /\ UNCHANGED <<pc, loc>>
           ELSE /\ rbuf' = [rbuf EXCEPT ![p] = <<>>]
                /\ rcap' = [rcap EXCEPT ![p] = 0]
                /\ IF j.ok /\ j.isList
                   THEN /\ loc' = [loc EXCEPT ![p] = j.val]
                        /\ pc' = [pc EXCEPT ![p] = "run"]
                   ELSE /\ loc' = loc
                        /\ pc' = [pc EXCEPT ![p] = "recover"]
    /\ UNCHANGED <<file, last, everAdded, clock, cmd, wbuf, wret, alone>>

\* load_tasks: the except branch prints the diagnostic
LoadRecover(p) ==
    /\ pc[p] = "recover"
    /\ pc' = [pc EXCEPT ![p] = "init_open"]
    /\ UNCHANGED <<file, last, everAdded, clock, cmd, loc, wbuf, wret, rbuf,
                   rcap, alone>>

\* an open for writing by p ends the other invocation's undisturbed read
Disturb(p) ==
    alone' = [q \in Procs |-> IF q # p /\ pc[q] = "read" THEN FALSE
                              ELSE alone[q]]

\* load_tasks: open(file_path, 'w') before json.dump([], f)
InitOpen(p) ==
    /\ pc[p] = "init_open"
    /\ file' = open_w(file)
    /\ wbuf' = [wbuf EXCEPT ![p] = json_dump(<<>>)]
    /\ wret' = [wret EXCEPT ![p] = "run"]
    /\ loc' = [loc EXCEPT ![p] = <<>>]
    /\ pc' = [pc EXCEPT ![p] = "write"]
    /\ Disturb(p)
    /\ UNCHANGED <<last, everAdded, clock, cmd, rbuf, rcap>>

\* the handler's call of add_task, complete_task, delete_task or list_tasks
Run(p) ==
    /\ pc[p] = "run"
    /\ cmd[p].name = "add" => clock < MaxTime
    /\ LET c == cmd[p]
           r == IF c.name = "add"
                THEN [found |-> TRUE,
                      tasks |-> add_task(c.text, loc[p], clock)]
                ELSE IF c.name = "complete"
                THEN complete_task(c.id, loc[p])
                ELSE IF c.name = "delete"
                THEN delete_task(c.id, loc[p])
                ELSE [found |-> TRUE, tasks |-> loc[p]]
       IN  /\ loc' = [loc EXCEPT ![p] = r.tasks]
           /\ clock' = IF c.name = "add" THEN clock + 1 ELSE clock
           /\ pc' = [pc EXCEPT ![p] =
                        IF ~r.found THEN "exit1"
                        ELSE IF c.name = "list" THEN "done"
                        ELSE "save_open"]
    /\ UNCHANGED <<file, last, everAdded, cmd, wbuf, wret, rbuf, rcap, alone>>

\* save_tasks: open(file_path, 'w') before json.dump(tasks, f, indent=2)
SaveOpen(p) ==
    /\ pc[p] = "save_open"
    /\ file' = open_w(file)
    /\ wbuf' = [wbuf EXCEPT ![p] = json_dump(loc[p])]
    /\ wret' = [wret EXCEPT ![p] = "done"]
    /\ pc' = [pc EXCEPT ![p] = "write"]
    /\ Disturb(p)
    /\ UNCHANGED <<last, everAdded, clock, cmd, loc, rbuf, rcap>>

\* leaving the with block: the buffered text, which is shorter than the
\* buffer, goes to the file in one write(), then the file is closed
Write(p) ==
    /\ pc[p] = "write"
    /\ Len(wbuf[p]) <= BufferSize
    /\ file' = OnDisk(WriteAtStart(file.data, wbuf[p]))
    /\ wbuf' = [wbuf EXCEPT ![p] = <<>>]
    /\ pc' = [pc EXCEPT ![p] = wret[p]]
    /\ UNCHANGED <<last, everAdded, clock, cmd, loc, wret, rbuf, rcap, alone>>

OneTask  == add_task(<<"a">>, <<>>, 1)
TwoTasks == add_task(<<>>, OneTask, 2)

InitConc ==
    /\ file \in {Missing, OnDisk(json_dump(<<>>)),
                 OnDisk(json_dump(OneTask)), OnDisk(json_dump(TwoTasks))}
    /\ last = NoReport
    /\ everAdded = IdsOf(load_tasks(file).tasks)
    /\ clock = 0
    /\ ConcIdle

StartAny       == \E p \in Procs, c \in Commands : Start(p, c)
LoadCheckAny   == \E p \in Procs : LoadCheck(p)
LoadSizeAny    == \E p \in Procs : LoadSize(p)
LoadReadAny    == \E p \in Procs : LoadRead(p)
LoadRecoverAny == \E p \in Procs : LoadRecover(p)
InitOpenAny    == \E p \in Procs : InitOpen(p)
RunAny         == \E p \in Procs : Run(p)
SaveOpenAny    == \E p \in Procs : SaveOpen(p)
WriteAny       == \E p \in Procs : Write(p)

NextConc ==
    \/ StartAny
    \/ LoadCheckAny
    \/ LoadSizeAny
    \/ LoadReadAny
    \/ LoadRecoverAny
    \/ InitOpenAny
    \/ RunAny
    \/ SaveOpenAny
    \/ WriteAny

SpecConc == InitConc /\ [][NextConc]_vars

\* the read() that returns nothing: the load ends with this step
LoadEnds(p) == LoadRead(p) /\ pc'[p] # "read"

\* the other invocation has opened the file in save_tasks
SaveBegun(p) == \E q \in Others(p) : wret[q] = "done"

\* C5 as stated: a load that ends after the other invocation began its save
\* starts no corruption recovery: it has read a complete collection.
C5_SaveAtomic ==
    [][\A p \in Procs :
         LoadEnds(p) /\ SaveBegun(p) => pc'[p] # "recover"]_vars

\* C5 amended: save_tasks truncates the file when it opens it and writes the
\* collection afterwards.  A load reads a complete collection and starts no
\* recovery when, from its size query to its last read, the other invocation
\* neither has the file open for writing nor opens it; the collection is the
\* one the other invocation ended with if that invocation is finished.
C5_FullOverwriteWhenAlone ==
    [][\A p \in Procs :
         LoadEnds(p) /\ alone[p]
            => /\ IsValid(rbuf[p])
               /\ rbuf[p] = file.data
               /\ pc'[p] = "run"
               /\ \A q \in Others(p) :
                    pc[q] = "done" => loc'[p] = loc[q]]_vars

C5_Witness ==
    \E p \in Procs : \E q \in Others(p) :
        /\ pc[q] = "done"
        /\ cmd[q].name = "delete"
        /\ pc[p] = "run"
        /\ alone[p]
        /\ Len(loc[q]) = 1
        /\ loc[p] = loc[q]
        /\ file.data = json_dump(loc[q])

====
